---------------------------- MODULE Spec2Model ----------------------------
(***************************************************************************)
(* Model of the 529Estimator compounding engine (estimator529/finance.py)  *)
(* and of its engine selection (estimator529/computation.py, cli.py).      *)
(*                                                                         *)
(* Arithmetic is exact.  An age is an integer number of ticks, a tick      *)
(* being half a calendar month, so that every age used below (whole years, *)
(* calendar months, and dates strictly inside a monthly period) is an      *)
(* integer.  On this grid the +/-1e-9 guards of the source decide nothing  *)
(* but the exact boundary, so ceil(x - 1e-9) and floor(x + 1e-9) are the   *)
(* exact ceiling and floor.  The per-period growth factor 1 + r/m is an    *)
(* integer: the annual rate r is drawn as a multiple of m.                 *)
(***************************************************************************)
EXTENDS Integers, Sequences, FiniteSets, TLC

\* finance.py:99-105: recurring contributions fall on a 12-per-year grid.
MonthsPerYear == 12

\* Age resolution of the model: two ticks per calendar month.
TicksPerYear == 2 * MonthsPerYear

\* Longest horizon end_age - start_age, in years.
MaxYears == 1

\* Runs at a positive rate are kept to this many growth periods, so that
\* every value stays inside TLC's 32-bit integers.
MaxGrowthPeriods == 26

\* Optional[float]: None is the empty tuple, a present value x is Some(x).
None == << >>
Some(x) == << x >>

Ticks(years) == years * TicksPerYear

Max(a, b) == IF a >= b THEN a ELSE b
Min(a, b) == IF a <= b THEN a ELSE b

\* math.floor(n / d) and math.ceil(n / d) for d > 0.
Floor(n, d) == n \div d
Ceil(n, d) == -((-n) \div d)

\* Python's round(n / d) for d > 0: ties go to the even integer.
Round(n, d) ==
  LET q == n \div d
      rem == n % d
  IN IF 2 * rem < d THEN q
     ELSE IF 2 * rem > d THEN q + 1
     ELSE IF q % 2 = 0 THEN q ELSE q + 1

RECURSIVE Pow(_, _)
Pow(b, e) == IF e <= 0 THEN 1 ELSE b * Pow(b, e - 1)

\* i = r / m (finance.py:77, 143, 182, 242); r is a multiple of m.
PeriodRate(r, m) == r \div m

\* Mutant of Growth: the rate is taken off instead of added.
GrowthShrinks(r, m) == 1 - PeriodRate(r, m)

\* (1 + i)
Growth(r, m) == 1 + PeriodRate(r, m)

\* Mutant of _age_to_month_end: the index is rounded up, to the first period
\* ending at or after the age.
_age_to_month_endRoundsUp(age, start_age, m, max_month) ==
  LET idx == Ceil((age - start_age) * m, TicksPerYear)
  IN IF idx < 0 THEN 0
     ELSE IF idx > max_month THEN max_month
     ELSE idx

\* finance.py:31-39.  age and start_age in ticks.
_age_to_month_end(age, start_age, m, max_month) ==
  LET idx == Floor((age - start_age) * m, TicksPerYear)
  IN IF idx < 0 THEN 0
     ELSE IF idx > max_month THEN max_month
     ELSE idx

\* ---- Python values (finance.py:14-15, 42-61) ----
\* A value the normalizer may be handed is a record [py, v, items]: py is its
\* type, v its number (a str is the decimal text of v), items its elements.
PyNone == [py |-> "NoneType", v |-> 0, items |-> << >>]
PyFloat(x) == [py |-> "float", v |-> x, items |-> << >>]
PyInt(x) == [py |-> "int", v |-> x, items |-> << >>]
PyTuple(xs) == [py |-> "tuple", v |-> 0, items |-> xs]
PyList(xs) == [py |-> "list", v |-> 0, items |-> xs]

\* The number a sequence of decimal digits writes.
RECURSIVE DecimalValue(_)
DecimalValue(digits) ==
  IF digits = << >> THEN 0
  ELSE 10 * DecimalValue(SubSeq(digits, 1, Len(digits) - 1)) + digits[Len(digits)]

\* A non-empty str of decimal digits; its items are its characters, a
\* one-character str having none recorded.
PyStr(digits) ==
  [py |-> "str", v |-> DecimalValue(digits),
   items |-> IF Len(digits) = 1 THEN << >>
             ELSE [ k \in DOMAIN digits |->
                      [py |-> "str", v |-> digits[k], items |-> << >>] ]]

\* bool(x), the test of `if not x` (finance.py:45, 51).
Truthy(x) ==
  CASE x.py = "NoneType" -> FALSE
    [] x.py \in {"float", "int"} -> x.v # 0
    [] x.py = "str" -> TRUE
    [] OTHER -> x.items # << >>

\* A value that len() and iteration accept (finance.py:47, 50, 53, 57).
Sized(x) == x.py \in {"tuple", "list", "str"}

\* The elements that iterating or unpacking x yields.
Elements(x) == IF x.py = "str" /\ x.items = << >> THEN << x >> ELSE x.items

\* A value that float() accepts (finance.py:59).
Floatable(x) == x.py \in {"float", "int", "str"}

\* A returned value and a raised exception, as the outcome of a call.
Returns(x) == [raises |-> "no", value |-> x]
Raises(exc) == [raises |-> exc, value |-> << >>]

\* finance.py:57-60: (float(start), float(end) if end is not None else None,
\* float(amt)), for an item of three components that float() accepts.
Coerced(item) ==
  LET start == Elements(item)[1]
      end == Elements(item)[2]
      amt == Elements(item)[3]
  IN PyTuple(<< PyFloat(start.v),
                IF end.py = "NoneType" THEN PyNone ELSE PyFloat(end.v),
                PyFloat(amt.v) >>)

\* finance.py:51-52: `if not item: continue`.
SkipsItem(item) == ~Truthy(item)

\* finance.py:50-60: the loop over the items from the k-th on, normalized
\* holding the segments appended so far.
RECURSIVE NormalizeFrom(_, _, _)
NormalizeFrom(items, k, normalized) ==
  IF k > Len(items) THEN Returns(normalized)
  ELSE LET item == items[k]
       IN IF SkipsItem(item) THEN NormalizeFrom(items, k + 1, normalized)
          ELSE IF ~Sized(item) THEN Raises("TypeError")
          ELSE IF Len(Elements(item)) # 3 THEN Raises("ValueError")
          ELSE IF ~Floatable(Elements(item)[1]) THEN Raises("TypeError")
          ELSE IF /\ Elements(item)[2].py # "NoneType"
                  /\ ~Floatable(Elements(item)[2]) THEN Raises("TypeError")
          ELSE IF ~Floatable(Elements(item)[3]) THEN Raises("TypeError")
          ELSE NormalizeFrom(items, k + 1, Append(normalized, Coerced(item)))

\* finance.py:42-61.  The outcome is Returns(the list) or Raises(the error).
_normalize_monthlies(monthly) ==
  IF ~Truthy(monthly) THEN Returns(<< >>)
  ELSE IF monthly.py = "tuple" /\ Len(monthly.items) = 3 THEN Returns(<< monthly >>)
  ELSE IF ~Sized(monthly) THEN Raises("TypeError")
  ELSE NormalizeFrom(Elements(monthly), 1, << >>)

\* finance.py:93: m_start, m_end, m_amt = sched, the end as an Optional.
Unpacked(sched) ==
  << sched.items[1].v,
     IF sched.items[2].py = "NoneType" THEN None ELSE Some(sched.items[2].v),
     sched.items[3].v >>

\* Mutant of LumpPreValue: the periods to roll are rounded down.
LumpPreValueFloor(lump, g, start_age, m) ==
  IF lump[1] < start_age
  THEN lump[2] * Pow(g, Floor((start_age - lump[1]) * m, TicksPerYear))
  ELSE 0

\* finance.py:82-90, one lump: what it adds to pre_value.
LumpPreValue(lump, g, start_age, m) ==
  LET age == lump[1]
      amt == lump[2]
      months == Ceil((start_age - age) * m, TicksPerYear)
  IN IF age < start_age
     THEN IF months > 0 THEN amt * Pow(g, months) ELSE amt
     ELSE 0

\* Mutant of PostLumps: the lumps beyond the horizon are kept too.
PostLumpsKeepsLater(lump_events, start_age, horizon) ==
  SelectSeq(lump_events, LAMBDA e : ~(e[1] < start_age))

\* finance.py:89-90: the lumps kept as post-start events.
PostLumps(lump_events, start_age, horizon) ==
  SelectSeq(lump_events, LAMBDA e : ~(e[1] < start_age) /\ e[1] <= horizon)

\* finance.py:93-102: the calendar-month indices a segment enumerates.
SchedMonths(sched, start_age, horizon) ==
  LET m_start == sched[1]
      m_end == sched[2]
      eff_end == Min(IF m_end # None THEN m_end[1] ELSE horizon, horizon)
      start_month_idx == Ceil((m_start - start_age) * MonthsPerYear, TicksPerYear)
      end_month_idx == Floor((eff_end - start_age) * MonthsPerYear, TicksPerYear)
  IN IF eff_end <= m_start THEN {}
     ELSE IF end_month_idx < start_month_idx THEN {}
     ELSE { month_idx \in start_month_idx .. end_month_idx :
              LET contrib_age == start_age + (month_idx * TicksPerYear) \div MonthsPerYear
              IN ~(contrib_age < m_start \/ contrib_age > eff_end) }

\* finance.py:105: contrib_age = start_age + month_idx / 12.0
ContribAge(month_idx, start_age) ==
  start_age + (month_idx * TicksPerYear) \div MonthsPerYear

\* Sum of f over a finite set of integers.
RECURSIVE SumOver(_, _)
SumOver(S, f) ==
  IF S = {} THEN 0
  ELSE LET x == CHOOSE y \in S : TRUE
       IN f[x] + SumOver(S \ {x}, f)

\* finance.py:108-116, one segment: what it adds to pre_value.
SchedPreValue(sched, g, start_age, horizon, m) ==
  LET S == { k \in SchedMonths(sched, start_age, horizon) :
               ContribAge(k, start_age) < start_age }
      f == [ k \in S |->
             LET months_forward ==
                   Ceil((start_age - ContribAge(k, start_age)) * m, TicksPerYear)
             IN IF months_forward > 0
                THEN sched[3] * Pow(g, months_forward)
                ELSE sched[3] ]
  IN SumOver(S, f)

\* finance.py:117-123, one segment: what it adds to monthly_by_period[p].
SchedAtPeriod(sched, p, start_age, horizon, m, total_periods) ==
  LET S == { k \in SchedMonths(sched, start_age, horizon) :
               /\ ~(ContribAge(k, start_age) < start_age)
               /\ ~(ContribAge(k, start_age) > horizon)
               /\ _age_to_month_end(ContribAge(k, start_age), start_age, m,
                                total_periods) = p }
  IN sched[3] * Cardinality(S)

\* finance.py:78: pre_value = 0.0
PreValueInit == 0

\* finance.py:92-93: the segments the second loop goes over, unpacked.
Scheds(normalized) == [ k \in DOMAIN normalized |-> Unpacked(normalized[k]) ]

\* finance.py:74-125, the two loops over the lumps and over the normalized
\* segments.  Ages in ticks.  monthly_by_period is the dict as a function on
\* 0 .. total_periods, an absent key being 0.
Accumulated(lump_events, scheds, r, start_age, horizon_age, m) ==
  LET horizon == Max(horizon_age, start_age)
      total_periods == Round((horizon - start_age) * m, TicksPerYear)
      g == Growth(r, m)
      lumpPre == SumOver(DOMAIN lump_events,
                   [ k \in DOMAIN lump_events |->
                       LumpPreValue(lump_events[k], g, start_age, m) ])
      schedPre == SumOver(DOMAIN scheds,
                   [ k \in DOMAIN scheds |->
                       SchedPreValue(scheds[k], g, start_age, horizon, m) ])
  IN [ pre_value |-> PreValueInit + lumpPre + schedPre,
       post_lumps |-> PostLumps(lump_events, start_age, horizon),
       monthly_by_period |->
         [ p \in 0 .. total_periods |->
             SumOver(DOMAIN scheds,
               [ k \in DOMAIN scheds |->
                   SchedAtPeriod(scheds[k], p, start_age, horizon, m,
                                 total_periods) ]) ] ]

\* finance.py:64-125.
_pre_start_value_and_adjust(lump_events, monthly, r, start_age, horizon_age, m) ==
  Accumulated(lump_events, Scheds(_normalize_monthlies(monthly).value), r,
              start_age, horizon_age, m)

\* finance.py:146-149, 248-251: lump_by_month as a function on 0 .. max_month,
\* an absent key being 0.
LumpByMonth(lumps_after, start_age, m, max_month) ==
  [ p \in 0 .. max_month |->
      SumOver({ k \in DOMAIN lumps_after :
                  _age_to_month_end(lumps_after[k][1], start_age, m, max_month) = p },
              [ k \in DOMAIN lumps_after |-> lumps_after[k][2] ]) ]

\* Mutant of MonthlyVec: the last period is left out.
MonthlyVecWithoutLast(monthly_by_period, end_month) ==
  [ p \in 0 .. end_month |->
      IF p \in DOMAIN monthly_by_period /\ p < end_month
      THEN monthly_by_period[p] ELSE 0 ]

\* finance.py:151-154, 254-257: monthly_vec.
MonthlyVec(monthly_by_period, end_month) ==
  [ p \in 0 .. end_month |->
      IF p \in DOMAIN monthly_by_period THEN monthly_by_period[p] ELSE 0 ]

\* Mutants of PeriodStep: the lump is added after the growth; the recurring
\* amount is added before the growth; the growth factor is added, not
\* multiplied.
PeriodStepLumpAfterGrowth(v, lump, g, recurring) == v * g + lump + recurring
PeriodStepRecurringBeforeGrowth(v, lump, g, recurring) == (v + lump + recurring) * g
PeriodStepGrowthAdded(v, lump, g, recurring) == (v + lump) + g + recurring

\* Mutant of PeriodStep: a period with a lump takes no recurring amount.
PeriodStepLumpOrRecurring(v, lump, g, recurring) ==
  IF lump # 0 THEN (v + lump) * g ELSE v * g + recurring

\* finance.py:157-161, 260-264: one period of the recurrence.
PeriodStep(v, lump, g, recurring) == (v + lump) * g + recurring

\* Mutant of Emits: the snapshot is taken at the last period of a year.
EmitsAtPeriodEnd(period, m) == (period + 1) % m = 0

\* finance.py:162: a yearly snapshot is taken at this period.
Emits(period, m) == period % m = 0

\* Mutant of Adj: the lump is not grown in its own period.
AdjNoGrowth(growth, lump, add) == lump + add

\* finance.py:205: adj = growth * lump_vec + add_vec, one component.
Adj(growth, lump, add) == growth * lump + add

\* finance.py:182-211: the vectorized path with the library present.
TimelineNumpy(lump_events, monthly, r, start_age, end_age, m) ==
  LET growth == Growth(r, m)
      months == Round((Ticks(end_age) - Ticks(start_age)) * m, TicksPerYear)
      pre == _pre_start_value_and_adjust(lump_events, monthly, r, Ticks(start_age),
                                    Ticks(end_age), m)
      lump_vec == LumpByMonth(pre.post_lumps, Ticks(start_age), m, months)
      add_vec == MonthlyVec(pre.monthly_by_period, months)
      adj == [ k \in 0 .. months |-> Adj(growth, lump_vec[k], add_vec[k]) ]
      conv == [ t \in 0 .. months |->
                 SumOver(0 .. t, [ k \in 0 .. t |-> adj[k] * Pow(growth, t - k) ]) ]
      values == [ t \in 0 .. months |->
                   Pow(growth, t + 1) * pre.pre_value + conv[t] ]
      n == months \div m
  IN [ j \in 1 .. (n + 1) |-> << start_age + ((j - 1) * m) \div m,
                                 values[(j - 1) * m] >> ]

---------------------------------------------------------------------------
VARIABLES
  lump_events, monthly, r, start_age, end_age, m,  \* the call's arguments
  HAS_NUMPY,                                       \* finance.py:17
  pc,                                              \* where the run is
  value, mi, end_month, lump_by_month, monthly_vec,\* locals of the running loop
  out,                                             \* timeline_hybrid_py's result
  outNp,                                           \* timeline_hybrid_np's result
  target_age, result,                              \* value_at_age_hybrid_exact
  engine, parallel_requested, rates, monthly_extra,\* run_cli's arguments
  cli_pc, use_numpy, parallel_mode,                \* run_cli's locals
  executor, futures, results,                      \* execute_parallel's locals
  stderr, stdout,                                  \* what run_cli has printed
  call, ret,                                       \* a direct call and its outcome
  threads, _work_q, after, handled                 \* the GUI's background jobs

vars == << lump_events, monthly, r, start_age, end_age, m, HAS_NUMPY, pc,
           value, mi, end_month, lump_by_month, monthly_vec, out, outNp,
           target_age, result, engine, parallel_requested, rates,
           monthly_extra, cli_pc, use_numpy, parallel_mode, executor,
           futures, results, stderr, stdout, call, ret, threads, _work_q,
           after, handled >>

\* The variables of the command-line run.
cliVars == << engine, parallel_requested, rates, monthly_extra, cli_pc,
             use_numpy, parallel_mode, executor, futures, results, stderr,
             stdout >>

\* The variables of a direct call of the engine.
engineVars == << r, pc, value, mi, end_month, lump_by_month, monthly_vec, out,
                outNp, target_age, result >>

inputs == << lump_events, monthly, r, start_age, end_age, m, HAS_NUMPY >>

\* The variables of a direct call of one function.
callVars == << call, ret >>

\* No direct call is made.
NoCall ==
  /\ call = [fn |-> "none"]
  /\ ret = [raises |-> "none", value |-> << >>]

\* The variables of the GUI's background jobs.
guiVars == << threads, _work_q, after, handled >>

\* No background job has been started.
NoGui ==
  /\ threads = << >>
  /\ _work_q = << >>
  /\ after = {}
  /\ handled = << >>

frame == << value, mi, end_month, lump_by_month, monthly_vec >>

NoFrame ==
  /\ value = 0
  /\ mi = 0
  /\ end_month = 0
  /\ lump_by_month = << >>
  /\ monthly_vec = << >>

\* ---- the inputs the model draws ----
StartAges == {0, 1}

\* cli.py:46: 12 = monthly, 4 = quarterly, 1 = yearly.
PeriodsPerYear == {1, 4, 12}

\* r / m, the rate per period: 0% and 100%.
PeriodRates == {0, 1}

\* Lump dates relative to start_age, in ticks: a year before, just before,
\* at, just after (inside the first monthly period), half a year after, at
\* the horizon and just beyond it.
LumpOffsets ==
  { -TicksPerYear, -1, 0, 1, TicksPerYear \div 2,
    Ticks(MaxYears), Ticks(MaxYears) + 1 }

\* A deposit of 2 at each of these dates, a withdrawal of 1 at two of them,
\* and the default lump of the command line (cli.py:31), 5000 half a year
\* after start_age.
LumpChoices(s) ==
  { << Ticks(s) + o, 2 >> : o \in LumpOffsets }
    \cup { << Ticks(s) + o, -1 >> : o \in {-1, TicksPerYear \div 2} }
    \cup { << Ticks(s) + TicksPerYear \div 2, 5000 >> }

CoreLumps(s) == { << Ticks(s) + o, 1 >> : o \in {0, 1} }

\* One list with a lump of each kind: before start_age, inside the window and
\* beyond the horizon.
MixedLumps(s) ==
  << << Ticks(s) - 1, 4 >>, << Ticks(s) + 1, 8 >>,
     << Ticks(s) + Ticks(MaxYears) + 1, 16 >> >>

LumpLists(s) ==
  {<< >>} \cup { << l >> : l \in LumpChoices(s) }
          \cup { << a, b >> : a \in CoreLumps(s), b \in CoreLumps(s) }
          \cup { MixedLumps(s) }

\* Segment starts relative to start_age: four months before, at, off the
\* month grid just after, and at the horizon.
SegStartOffsets == { -8, 0, 1, Ticks(MaxYears) }

\* Segment ends: open, at start_age, half a year after it, and age 18.
SegEnds(s) ==
  { None, Some(Ticks(s)), Some(Ticks(s) + TicksPerYear \div 2), Some(Ticks(18)) }

\* A monthly amount of 1 on each of these windows, and the default schedule
\* of the command line (cli.py:36), 125 a month up to age 18.
SegChoices(s) ==
  { << Ticks(s) + o, e, 1 >> : o \in SegStartOffsets, e \in SegEnds(s) }
    \cup { << Ticks(s), Some(Ticks(18)), 125 >> }

CoreSegs(s) == { << Ticks(s) + o, None, a >> : o \in {-8, 0}, a \in {-1, 2} }

PairSegs(s) == { << Ticks(s) - 8, None, 2 >>, << Ticks(s), Some(Ticks(18)), 1 >> }

\* The tuple (start, end, amount) of floats, end None when open.
Segment(t) ==
  PyTuple(<< PyFloat(t[1]),
             IF t[2] = None THEN PyNone ELSE PyFloat(t[2][1]),
             PyFloat(t[3]) >>)

\* The schedule argument: absent, an empty list, a list of one or two
\* segments, or a single segment.
MonthlyInputs(s) ==
  { PyNone, PyList(<< >>) }
    \cup { PyList(<< Segment(g) >>) : g \in SegChoices(s) \cup CoreSegs(s) }
    \cup { PyList(<< Segment(g), Segment(h) >>) : g \in PairSegs(s),
                                                  h \in PairSegs(s) }
    \cup { Segment(g) : g \in PairSegs(s) }

\* The number of growth periods a value can see: the pre-start roll and the
\* simulated periods.
GrowthPeriods(s, e, mm) == (1 + (e - s)) * mm + 1

Init ==
  /\ start_age \in StartAges
  /\ end_age \in start_age .. start_age + MaxYears
  /\ m \in PeriodsPerYear
  /\ r \in { i * m : i \in PeriodRates }
  /\ (r # 0) => (GrowthPeriods(start_age, end_age, m) <= MaxGrowthPeriods)
  /\ lump_events \in LumpLists(start_age)
  /\ monthly \in MonthlyInputs(start_age)
  /\ HAS_NUMPY = TRUE
  /\ pc = "idle"
  /\ NoFrame
  /\ out = << >>
  /\ outNp = << >>
  /\ target_age = 0
  /\ result = None
  /\ engine = "auto"
  /\ parallel_requested = "auto"
  /\ rates = << >>
  /\ monthly_extra = << >>
  /\ cli_pc = "none"
  /\ use_numpy = FALSE
  /\ parallel_mode = "none"
  /\ executor = "none"
  /\ futures = << >>
  /\ results = << >>
  /\ stderr = << >>
  /\ stdout = << >>
  /\ NoCall
  /\ NoGui

\* finance.py:138-154: timeline_hybrid_py up to its loop.
CallTimelinePy ==
  /\ pc = "idle"
  /\ LET pre == _pre_start_value_and_adjust(lump_events, monthly, r, Ticks(start_age),
                                       Ticks(end_age), m)
         em == Round((Ticks(end_age) - Ticks(start_age)) * m, TicksPerYear)
     IN /\ value' = pre.pre_value
        /\ end_month' = em
        /\ lump_by_month' = LumpByMonth(pre.post_lumps, Ticks(start_age), m, em)
        /\ monthly_vec' = MonthlyVec(pre.monthly_by_period, em)
  /\ mi' = 0
  /\ out' = << >>
  /\ pc' = "py_loop"
  /\ UNCHANGED callVars
  /\ UNCHANGED guiVars
  /\ UNCHANGED << inputs, outNp, target_age, result >>
  /\ UNCHANGED cliVars

\* finance.py:156-164: one iteration of the period loop.
PyStep ==
  /\ pc = "py_loop"
  /\ mi <= end_month
  /\ LET v == PeriodStep(value, lump_by_month[mi], Growth(r, m), monthly_vec[mi])
     IN /\ value' = v
        /\ out' = IF Emits(mi, m)
                  THEN Append(out, << start_age + mi \div m, v >>)
                  ELSE out
  /\ mi' = mi + 1
  /\ UNCHANGED callVars
  /\ UNCHANGED guiVars
  /\ UNCHANGED << inputs, pc, end_month, lump_by_month, monthly_vec, outNp,
                  target_age, result >>
  /\ UNCHANGED cliVars

\* finance.py:165: return out.
PyReturn ==
  /\ pc = "py_loop"
  /\ mi > end_month
  /\ pc' = "py_done"
  /\ value' = 0 /\ mi' = 0 /\ end_month' = 0
  /\ lump_by_month' = << >> /\ monthly_vec' = << >>
  /\ UNCHANGED callVars
  /\ UNCHANGED guiVars
  /\ UNCHANGED << inputs, out, outNp, target_age, result >>
  /\ UNCHANGED cliVars

\* finance.py:128-165 as one evaluation: the loop of PyStep run to its end.
timeline_hybrid_py(lumps, sched, rate, s, e, mm) ==
  LET pre == _pre_start_value_and_adjust(lumps, sched, rate, Ticks(s), Ticks(e), mm)
      em == Round((Ticks(e) - Ticks(s)) * mm, TicksPerYear)
      lbm == LumpByMonth(pre.post_lumps, Ticks(s), mm, em)
      mv == MonthlyVec(pre.monthly_by_period, em)
      vals[p \in 0 .. em] ==
        PeriodStep(IF p = 0 THEN pre.pre_value ELSE vals[p - 1],
                   lbm[p], Growth(rate, mm), mv[p])
      emitted == SelectSeq([ j \in 1 .. em + 1 |-> j - 1 ],
                           LAMBDA q : Emits(q, mm))
  IN [ j \in 1 .. Len(emitted) |->
         << s + emitted[j] \div mm, vals[emitted[j]] >> ]

\* finance.py:168-211: timeline_hybrid_np, which delegates to the sequential
\* simulator when the library is absent (lines 178-179).
timeline_hybrid_np(lumps, sched, rate, s, e, mm) ==
  IF ~HAS_NUMPY THEN timeline_hybrid_py(lumps, sched, rate, s, e, mm)
  ELSE TimelineNumpy(lumps, sched, rate, s, e, mm)

CallTimelineNp ==
  /\ pc = "py_done"
  /\ outNp' = timeline_hybrid_np(lump_events, monthly, r, start_age, end_age, m)
  /\ pc' = "np_done"
  /\ UNCHANGED callVars
  /\ UNCHANGED guiVars
  /\ UNCHANGED << inputs, frame, out, target_age, result >>
  /\ UNCHANGED cliVars

\* The target ages the point valuator is asked for, in ticks: a year
\* before start_age, start_age, and end_age.
TargetAges ==
  { Ticks(start_age) - TicksPerYear, Ticks(start_age), Ticks(end_age) }

\* Mutant of Discounted: one period too few.
DiscountedOnePeriodShort(pre_val, g, months) == << pre_val, Pow(g, months - 1) >>

\* finance.py:238-245: target before start_age, the pre-start value
\* discounted; the quotient is kept as << numerator, denominator >>.
Discounted(pre_val, g, months) ==
  IF months >= 0 THEN << pre_val, Pow(g, months) >>
  ELSE << pre_val * Pow(g, -months), 1 >>

\* finance.py:238-257: value_at_age_hybrid_exact up to its return or loop.
CallValueAt ==
  /\ pc = "np_done"
  /\ \E t \in TargetAges :
       LET horizon == Max(t, Ticks(start_age))
           pre == _pre_start_value_and_adjust(lump_events, monthly, r,
                                         Ticks(start_age), horizon, m)
           max_month == Round((horizon - Ticks(start_age)) * m, TicksPerYear)
           em == Round((t - Ticks(start_age)) * m, TicksPerYear)
       IN /\ target_age' = t
          /\ IF t < Ticks(start_age)
             THEN /\ result' = Discounted(pre.pre_value, Growth(r, m),
                                 Round((Ticks(start_age) - t) * m, TicksPerYear))
                  /\ pc' = "done"
                  /\ UNCHANGED frame
             ELSE /\ value' = pre.pre_value
                  /\ end_month' = em
                  /\ lump_by_month' =
                       LumpByMonth(pre.post_lumps, Ticks(start_age), m, max_month)
                  /\ monthly_vec' = MonthlyVec(pre.monthly_by_period, em)
                  /\ mi' = 0
                  /\ pc' = "val_loop"
                  /\ UNCHANGED result
  /\ UNCHANGED callVars
  /\ UNCHANGED guiVars
  /\ UNCHANGED << inputs, out, outNp >>
  /\ UNCHANGED cliVars

\* finance.py:259-264: one iteration of the valuator's loop.
ValStep ==
  /\ pc = "val_loop"
  /\ mi <= end_month
  /\ value' = PeriodStep(value,
                 IF mi \in DOMAIN lump_by_month THEN lump_by_month[mi] ELSE 0,
                 Growth(r, m), monthly_vec[mi])
  /\ mi' = mi + 1
  /\ UNCHANGED callVars
  /\ UNCHANGED guiVars
  /\ UNCHANGED << inputs, pc, end_month, lump_by_month, monthly_vec, out, outNp,
                  target_age, result >>
  /\ UNCHANGED cliVars

\* Mutant of ValReturn: the loop is left before its last period.
ValReturnOnePeriodEarly ==
  /\ pc = "val_loop"
  /\ mi >= end_month
  /\ result' = << value, 1 >>
  /\ pc' = "done"
  /\ value' = 0 /\ mi' = 0 /\ end_month' = 0
  /\ lump_by_month' = << >> /\ monthly_vec' = << >>
  /\ UNCHANGED callVars
  /\ UNCHANGED guiVars
  /\ UNCHANGED << inputs, out, outNp, target_age >>
  /\ UNCHANGED cliVars

\* finance.py:265: return value.
ValReturn ==
  /\ pc = "val_loop"
  /\ mi > end_month
  /\ result' = << value, 1 >>
  /\ pc' = "done"
  /\ value' = 0 /\ mi' = 0 /\ end_month' = 0
  /\ lump_by_month' = << >> /\ monthly_vec' = << >>
  /\ UNCHANGED callVars
  /\ UNCHANGED guiVars
  /\ UNCHANGED << inputs, out, outNp, target_age >>
  /\ UNCHANGED cliVars

Next ==
  \/ CallTimelinePy \/ PyStep \/ PyReturn
  \/ CallTimelineNp
  \/ CallValueAt \/ ValStep \/ ValReturn

Spec == Init /\ [][Next]_vars

---------------------------------------------------------------------------
\* ---- engine selection and the command-line run ----

\* str.lower() on the strings the model draws.
Lower(str) ==
  CASE str = "NumPy" -> "numpy"
    [] str = "AUTO" -> "auto"
    [] str = "Thread" -> "thread"
    [] OTHER -> str

\* computation.py:11-23.
resolve_use_numpy(eng) ==
  LET normalized == Lower(eng)
  IN IF normalized \notin {"auto", "numpy", "python"}
     THEN Raises("ValueError")
     ELSE IF normalized = "numpy"
     THEN IF ~HAS_NUMPY THEN Raises("RuntimeError")
          ELSE Returns(TRUE)
     ELSE IF normalized = "python" THEN Returns(FALSE)
     ELSE Returns(HAS_NUMPY)

\* Mutants of resolve_parallel_mode: the task count is looked at before the
\* string is validated; a single task keeps the requested mode.
resolve_parallel_modeCountFirst(mode, task_count) ==
  IF task_count <= 1 THEN Returns("none")
  ELSE IF Lower(mode) \notin {"auto", "process", "thread", "none"}
  THEN Raises("ValueError")
  ELSE Returns(IF Lower(mode) = "auto" THEN "process" ELSE Lower(mode))
resolve_parallel_modeKeepsMode(mode, task_count) ==
  IF Lower(mode) \notin {"auto", "process", "thread", "none"}
  THEN Raises("ValueError")
  ELSE Returns(IF Lower(mode) = "auto" THEN "process" ELSE Lower(mode))

\* computation.py:26-36.
resolve_parallel_mode(mode, task_count) ==
  LET normalized == Lower(mode)
  IN IF normalized \notin {"auto", "process", "thread", "none"}
     THEN Raises("ValueError")
     ELSE IF task_count <= 1 THEN Returns("none")
     ELSE IF normalized = "auto" THEN Returns("process")
     ELSE Returns(normalized)

\* finance.py:214-225: timeline_hybrid, with the simulator that computed
\* the Timeline recorded beside it.
timeline_hybrid(lumps, sched, rate, s, e, mm, use) ==
  IF use /\ HAS_NUMPY
  THEN [by |-> "numpy", timeline |-> timeline_hybrid_np(lumps, sched, rate, s, e, mm)]
  ELSE [by |-> "python", timeline |-> timeline_hybrid_py(lumps, sched, rate, s, e, mm)]

\* parsing.py:52-65.  Schedules are the lists parse_monthly returns, as
\* sequences of segments; None is << >>.
combine_monthlies(base, extra) ==
  [ k \in 1 .. Len(base) |-> Coerced(base[k]) ]
    \o [ k \in 1 .. Len(extra) |-> Coerced(extra[k]) ]

\* computation.py:56-61.
resolve_strategy_monthlies(monthly_base, monthly_extra_) ==
  [ monthly_only |-> monthly_base,
    hybrid_only |-> combine_monthlies(None, monthly_extra_) ]

\* A list of segments as the schedule argument of the engine.
AsSchedule(segs) == PyList(segs)

\* finance.py:143, 182: i = r / m, the first statement of either simulator
\* that fails for m = 0.
TimelineRaises(mm) == IF mm = 0 THEN "ZeroDivisionError" ELSE "no"

\* computation.py:64-88.  The outcome is the dict, with raises |-> "no" and
\* the simulator that computed the hybrid Timeline beside it, or the error
\* of the first timeline_hybrid call.
compute_one(rate, lumps, monthly_base, monthly_extra_, s, e, mm, use) ==
  IF TimelineRaises(mm) # "no" THEN [raises |-> TimelineRaises(mm)] ELSE
  LET strat == resolve_strategy_monthlies(monthly_base, monthly_extra_)
      lump == timeline_hybrid(lumps, PyNone, rate, s, e, mm, use)
      hybrid == timeline_hybrid(lumps, AsSchedule(strat.hybrid_only), rate, s, e,
                               mm, use)
  IN [ raises |-> "no",
       rate |-> rate,
       lump |-> lump.timeline,
       monthly |-> IF strat.monthly_only # << >>
                   THEN timeline_hybrid(<< >>, AsSchedule(strat.monthly_only),
                                       rate, s, e, mm, use).timeline
                   ELSE None,
       hybrid |-> hybrid.timeline,
       by |-> hybrid.by ]

\* The strings a caller may pass for the engine and the parallel mode.
EngineStrings == {"auto", "numpy", "python", "NumPy", "fast"}
ParallelStrings == {"auto", "process", "thread", "none", "Thread", "fork"}

\* The rate lists of the command-line run, annual rates as multiples of M.
RateLists(mm) == { << >>, << mm >>, << 0, mm >>, << mm, 0, mm >> }

\* cli.py:45-47: --periods is any int; 0 makes every simulation fail.
CliPeriods == { 0, 12 }

InitCli ==
  /\ HAS_NUMPY \in BOOLEAN
  /\ engine \in EngineStrings
  /\ parallel_requested \in ParallelStrings
  /\ m \in CliPeriods
  /\ rates \in RateLists(m)
  /\ start_age = 0
  /\ end_age = 1
  /\ lump_events \in { << >>, << << TicksPerYear \div 2, 5000 >> >> }
  /\ monthly \in { AsSchedule(<< >>),
                   AsSchedule(<< Segment(<< 0, Some(Ticks(18)), 125 >>) >>) }
  /\ monthly_extra \in { << >>, << Segment(<< 0, None, 1 >>) >> }
  /\ cli_pc = "start"
  /\ use_numpy = FALSE
  /\ parallel_mode = "none"
  /\ executor = "none"
  /\ futures = << >>
  /\ results = << >>
  /\ stderr = << >>
  /\ stdout = << >>
  /\ r = 0
  /\ pc = "idle"
  /\ NoFrame
  /\ out = << >>
  /\ outNp = << >>
  /\ target_age = 0
  /\ result = None
  /\ NoCall
  /\ NoGui

\* cli.py:116-123: the engine is resolved; a RuntimeError is caught, a
\* warning printed and the pure-Python engine used.
CliResolveEngine ==
  /\ cli_pc = "start"
  /\ LET res == resolve_use_numpy(engine)
     IN \/ /\ res.raises = "no"
           /\ use_numpy' = res.value
           /\ cli_pc' = "engine_resolved"
           /\ UNCHANGED stderr
        \/ /\ res.raises = "RuntimeError"
           /\ stderr' = Append(stderr, "Warning: Falling back to pure Python engine.")
           /\ use_numpy' = FALSE
           /\ cli_pc' = "engine_resolved"
        \/ /\ res.raises = "ValueError"
           /\ cli_pc' = "ValueError"
           /\ UNCHANGED << use_numpy, stderr >>
  /\ UNCHANGED callVars
  /\ UNCHANGED guiVars
  /\ UNCHANGED << inputs, engineVars, engine, parallel_requested, rates,
                  monthly_extra, parallel_mode, executor, futures, results,
                  stdout >>

\* cli.py:125-127.
CliResolveParallel ==
  /\ cli_pc = "engine_resolved"
  /\ LET res == resolve_parallel_mode(parallel_requested, Len(rates))
     IN \/ /\ res.raises = "no"
           /\ parallel_mode' = res.value
           /\ cli_pc' = "parallel_resolved"
           /\ stderr' = IF /\ res.value = "none"
                           /\ parallel_requested \notin {"auto", "none"}
                           /\ Len(rates) <= 1
                        THEN Append(stderr, "Note: parallel execution disabled.")
                        ELSE stderr
        \/ /\ res.raises = "ValueError"
           /\ cli_pc' = "ValueError"
           /\ UNCHANGED << parallel_mode, stderr >>
  /\ UNCHANGED callVars
  /\ UNCHANGED guiVars
  /\ UNCHANGED << inputs, engineVars, engine, parallel_requested, rates,
                  monthly_extra, use_numpy, executor, futures, results,
                  stdout >>

\* computation.py:48: `if mode == "none" or not tasks` is the direct path.
UsesPool(mode, tasks) == ~(mode = "none" \/ tasks = << >>)

\* computation.py:50.
Executor(mode) ==
  IF mode = "process" THEN "ProcessPoolExecutor" ELSE "ThreadPoolExecutor"

\* cli.py:136-140, computation.py:48-52: one task per rate is made and
\* handed over; a future is "pending" until its task has run, runs counting
\* the calls of func for it.  On the direct path no pool is made and the
\* futures stand for the elements of the list being built.
CliSubmit ==
  /\ cli_pc = "parallel_resolved"
  /\ executor' = IF UsesPool(parallel_mode, rates) THEN Executor(parallel_mode)
                 ELSE "none"
  /\ futures' = [ k \in 1 .. Len(rates) |-> [state |-> "pending", runs |-> 0] ]
  /\ cli_pc' = "executing"
  /\ UNCHANGED callVars
  /\ UNCHANGED guiVars
  /\ UNCHANGED << inputs, engineVars, engine, parallel_requested, rates,
                  monthly_extra, use_numpy, parallel_mode, results, stderr,
                  stdout >>

\* The number of tasks that have run.
Finished(futs) ==
  Cardinality({ j \in 1 .. Len(futs) : futs[j].state # "pending" })

\* Mutant of MayRun: a failed task is run again.
MayRunAgain(fut) == fut.state \in {"pending", "failed"} /\ fut.runs < 3

\* computation.py:49, 52: func is called once for a task.
MayRun(fut) == fut.state = "pending"

\* Mutant of RunTask: the task empties the lump list it was handed.
RunTaskClearsLumps(k) ==
  /\ cli_pc = "executing"
  /\ MayRun(futures[k])
  /\ executor = "none" =>
       \A j \in 1 .. k - 1 : futures[j].state = "done"
  /\ LET res == compute_one(rates[k], lump_events, monthly.items,
                            monthly_extra, start_age, end_age, m, use_numpy)
     IN futures' = [ futures EXCEPT ![k] =
          IF res.raises = "no"
          THEN [ state |-> "done", runs |-> futures[k].runs + 1,
                 at |-> Finished(futures) + 1, value |-> res ]
          ELSE [ state |-> "failed", runs |-> futures[k].runs + 1,
                 at |-> Finished(futures) + 1, error |-> res.raises ] ]
  /\ lump_events' = << >>
  /\ UNCHANGED callVars
  /\ UNCHANGED guiVars
  /\ UNCHANGED << monthly, r, start_age, end_age, m, HAS_NUMPY, engineVars,
                  engine, parallel_requested, rates, monthly_extra, cli_pc,
                  use_numpy, parallel_mode, executor, results, stderr,
                  stdout >>

\* computation.py:49, 52: a task runs compute_one.  On the direct path the
\* tasks run in list order and stop at the first error; the workers of a
\* pool take them in any order.  at is the task's place in the order of
\* completion.
RunTask(k) ==
  /\ cli_pc = "executing"
  /\ MayRun(futures[k])
  /\ executor = "none" =>
       \A j \in 1 .. k - 1 : futures[j].state = "done"
  /\ LET res == compute_one(rates[k], lump_events, monthly.items,
                            monthly_extra, start_age, end_age, m, use_numpy)
     IN futures' = [ futures EXCEPT ![k] =
          IF res.raises = "no"
          THEN [ state |-> "done", runs |-> futures[k].runs + 1,
                 at |-> Finished(futures) + 1, value |-> res ]
          ELSE [ state |-> "failed", runs |-> futures[k].runs + 1,
                 at |-> Finished(futures) + 1, error |-> res.raises ] ]
  /\ UNCHANGED callVars
  /\ UNCHANGED guiVars
  /\ UNCHANGED << inputs, engineVars, engine, parallel_requested, rates,
                  monthly_extra, cli_pc, use_numpy, parallel_mode, executor,
                  results, stderr, stdout >>

\* Mutant of ResultOrder: the futures are read as they complete.
ResultOrderAsCompleted(futs) ==
  [ k \in 1 .. Len(futs) |-> CHOOSE j \in 1 .. Len(futs) : futs[j].at = k ]

\* computation.py:49, 53: the futures are read in the order of the list.
ResultOrder(futs) == [ k \in 1 .. Len(futs) |-> k ]

\* computation.py:49, 53: [f.result() for f in futures], every task done.
Collected(futs) ==
  [ k \in 1 .. Len(futs) |-> futs[ResultOrder(futs)[k]].value ]

\* computation.py:49, 53: the list is returned once every task is done.
CliCollect ==
  /\ cli_pc = "executing"
  /\ \A k \in 1 .. Len(futures) : futures[k].state = "done"
  /\ results' = Collected(futures)
  /\ cli_pc' = "done"
  /\ UNCHANGED callVars
  /\ UNCHANGED guiVars
  /\ UNCHANGED << inputs, engineVars, engine, parallel_requested, rates,
                  monthly_extra, use_numpy, parallel_mode, executor, futures,
                  stderr, stdout >>

\* computation.py:49, 53: func or f.result() raises for the k-th task, the
\* first that failed.
Fails(futs, k) ==
  /\ futs[k].state = "failed"
  /\ \A j \in 1 .. k - 1 : futs[j].state = "done"

\* computation.py:49, 51-53: the error of a failed task leaves
\* execute_parallel, and run_cli with it; leaving the `with` block of a pool
\* waits for the tasks still running.
CliRaise ==
  /\ cli_pc = "executing"
  /\ \E k \in 1 .. Len(futures) :
       /\ Fails(futures, k)
       /\ cli_pc' = futures[k].error
  /\ executor # "none" =>
       \A j \in 1 .. Len(futures) : futures[j].state # "pending"
  /\ UNCHANGED callVars
  /\ UNCHANGED guiVars
  /\ UNCHANGED << inputs, engineVars, engine, parallel_requested, rates,
                  monthly_extra, use_numpy, parallel_mode, executor, futures,
                  results, stderr, stdout >>

\* cli.py:159: points = [30, 40, 50, 60]
points == << 30, 40, 50, 60 >>

\* cli.py:165: for option in ["Lump Sum", "Monthly", "Hybrid"]
options == << "Lump Sum", "Monthly", "Hybrid" >>

\* cli.py:165-177: the calls of value_at_age_hybrid_exact that fill the row
\* of an option, one per point age; the Monthly row of an empty schedule
\* makes none and shows 0.0.
RowCalls(option, rate, lumps, monthly_only, hybrid_monthlies, s, mm) ==
  IF option = "Monthly" /\ monthly_only = << >> THEN << >>
  ELSE [ a \in 1 .. Len(points) |->
           [ lump_events |-> IF option = "Monthly" THEN << >> ELSE lumps,
             monthly |-> CASE option = "Lump Sum" -> PyNone
                           [] option = "Monthly" -> AsSchedule(monthly_only)
                           [] OTHER -> AsSchedule(hybrid_monthlies),
             r |-> rate,
             target_age_float |-> Ticks(points[a]),
             start_age |-> Ticks(s),
             m |-> mm ] ]

\* cli.py:111, 159-179: the tables of point estimates are printed, a row
\* per rate and option.  A row is kept as the calls of the valuator whose
\* values it shows: the ages 30 to 60 are out of the range in which the
\* model computes values.
CliPointEstimates ==
  /\ cli_pc = "done"
  /\ stdout = << >>
  /\ LET hybrid_monthlies == combine_monthlies(monthly.items, monthly_extra)
         rows == [ j \in 1 .. Len(rates) * Len(options) |->
                     LET k == ((j - 1) \div Len(options)) + 1
                         option == options[((j - 1) % Len(options)) + 1]
                     IN [ option |-> option,
                          rate |-> rates[k],
                          calls |-> RowCalls(option, rates[k], lump_events,
                                             monthly.items, hybrid_monthlies,
                                             start_age, m) ] ]
     IN stdout' = << [ option |-> "POINT ESTIMATES (tables per rate)",
                       rate |-> 0, calls |-> << >> ] >> \o rows
  /\ UNCHANGED callVars
  /\ UNCHANGED guiVars
  /\ UNCHANGED << inputs, engineVars, engine, parallel_requested, rates,
                  monthly_extra, cli_pc, use_numpy, parallel_mode, executor,
                  futures, results, stderr >>

NextCli ==
  \/ CliResolveEngine
  \/ CliResolveParallel
  \/ CliSubmit
  \/ \E k \in 1 .. Len(futures) : RunTask(k)
  \/ CliCollect
  \/ CliRaise
  \/ CliPointEstimates

SpecCli == InitCli /\ [][NextCli]_vars

---------------------------------------------------------------------------
\* ---- direct calls of the schedule normalizer and of the point valuator ----

\* A float argument: a finite number of ticks, or nan, inf, -inf.
Finite(x) == [fl |-> "finite", ticks |-> x]
NaN == [fl |-> "nan", ticks |-> 0]
PosInf == [fl |-> "inf", ticks |-> 0]
NegInf == [fl |-> "-inf", ticks |-> 0]

\* finance.py:74-75: int(round((horizon - start_age) * m)); round raises
\* OverflowError on an infinity and ValueError on nan.  With start_age nan or
\* inf the difference is nan; with -inf it is inf, and inf * 0 is nan.
RoundRaises(start, mm) ==
  CASE start.fl = "finite" -> "no"
    [] start.fl = "-inf" /\ mm # 0 -> "OverflowError"
    [] OTHER -> "ValueError"

\* finance.py:228-265 as one evaluation.  target_age_float in ticks, the
\* value returned as << numerator, denominator >>.
value_at_age_hybrid_exact(lumps, sched, rate, target_age_float, start, mm) ==
  IF RoundRaises(start, mm) # "no" THEN Raises(RoundRaises(start, mm))
  ELSE IF mm = 0 THEN Raises("ZeroDivisionError")
  ELSE
    LET s == start.ticks
        horizon == Max(target_age_float, s)
        pre == _pre_start_value_and_adjust(lumps, sched, rate, s, horizon, mm)
        max_month == Round((horizon - s) * mm, TicksPerYear)
        em == Round((target_age_float - s) * mm, TicksPerYear)
        lbm == LumpByMonth(pre.post_lumps, s, mm, max_month)
        mv == MonthlyVec(pre.monthly_by_period, em)
        vals[p \in 0 .. em] ==
          PeriodStep(IF p = 0 THEN pre.pre_value ELSE vals[p - 1],
                     IF p \in DOMAIN lbm THEN lbm[p] ELSE 0,
                     Growth(rate, mm), mv[p])
    IN IF target_age_float < s
       THEN Returns(Discounted(pre.pre_value, Growth(rate, mm),
                               Round((s - target_age_float) * mm, TicksPerYear)))
       ELSE Returns(<< IF em < 0 THEN pre.pre_value ELSE vals[em], 1 >>)

\* The components a segment is given with: floats, ints and decimal strings.
StartCells == { PyFloat(0), PyInt(0), PyInt(1), PyStr(<< 1 >>) }
EndCells == { PyNone, PyInt(18), PyStr(<< 1, 8 >>) }
AmountCells == { PyFloat(125), PyInt(125), PyInt(0), PyStr(<< 1, 2, 5 >>) }

\* Well-formed segments.
GoodSegments ==
  { PyTuple(<< a, e, x >>) : a \in StartCells, e \in EndCells, x \in AmountCells }

\* Three segments that tell their order.
SegA == PyTuple(<< PyInt(0), PyInt(1), PyInt(5) >>)
SegB == PyTuple(<< PyInt(1), PyInt(2), PyInt(6) >>)
SegC == PyTuple(<< PyInt(2), PyNone, PyStr(<< 7 >>) >>)

\* Segments of the wrong length: empty, two, four components.
BadSegments ==
  { PyTuple(<< >>),
    PyTuple(<< PyInt(0), PyInt(18) >>),
    PyTuple(<< PyInt(0), PyInt(0) >>),
    PyTuple(<< PyInt(0), PyNone, PyInt(0), PyInt(0) >>),
    PyTuple(<< PyInt(1), PyInt(2), PyInt(3), PyInt(4) >>) }

\* The arguments _normalize_monthlies is called with: absent and empty,
\* single segments, lists and tuples of segments, and malformed ones.
NormalizerInputs ==
  { PyNone, PyList(<< >>) }
    \cup GoodSegments
    \cup { PyList(<< g >>) : g \in GoodSegments }
    \cup BadSegments
    \cup { PyList(<< b >>) : b \in BadSegments }
    \cup { PyList(<< SegA, b >>) : b \in BadSegments \cup { PyNone } }
    \cup { PyList(<< b, SegA >>) : b \in BadSegments }
    \cup { PyList(<< SegA, SegB >>), PyList(<< SegB, SegA >>),
           PyTuple(<< SegA, SegB >>), PyTuple(<< SegB, SegA, SegC >>),
           PyList(<< SegC, SegB, SegA >>),
           PyList(<< PyList(<< PyInt(0), PyInt(1), PyInt(5) >>) >>),
           PyList(<< PyInt(0), PyInt(1), PyInt(5) >>),
           PyList(<< SegA, PyStr(<< 1, 2, 5 >>) >>),
           PyList(<< PyTuple(<< PyInt(0), SegA, PyInt(5) >>) >>),
           PyInt(5) }

\* The arguments value_at_age_hybrid_exact is called with.
ValuatorPeriods == { -12, -1, 0, 1, 12 }
ValuatorStarts == { Finite(0), Finite(TicksPerYear), NaN, PosInf, NegInf }
ValuatorTargets == { -TicksPerYear, 0, TicksPerYear \div 2, TicksPerYear }
ValuatorLumps ==
  { << >>, << << -(TicksPerYear \div 2), 7 >> >>,
    << << -(TicksPerYear \div 2), 7 >>, << TicksPerYear \div 2, 3 >> >> }
ValuatorMonthlies ==
  { PyNone, PyList(<< Segment(<< -(TicksPerYear \div 2), None, 1 >>) >>) }

InitCall ==
  /\ \/ \E x \in NormalizerInputs :
          call = [fn |-> "_normalize_monthlies", monthly |-> x]
     \/ \E l \in ValuatorLumps, s \in ValuatorMonthlies, i \in PeriodRates,
           t \in ValuatorTargets, a \in ValuatorStarts, mm \in ValuatorPeriods :
          call = [fn |-> "value_at_age_hybrid_exact", lump_events |-> l,
                  monthly |-> s, r |-> i * mm, target_age_float |-> t,
                  start_age |-> a, m |-> mm]
  /\ ret = [raises |-> "pending", value |-> << >>]
  /\ NoGui
  /\ lump_events = << >>
  /\ monthly = PyNone
  /\ r = 0
  /\ start_age = 0
  /\ end_age = 0
  /\ m = 12
  /\ HAS_NUMPY = TRUE
  /\ pc = "none"
  /\ NoFrame
  /\ out = << >>
  /\ outNp = << >>
  /\ target_age = 0
  /\ result = None
  /\ engine = "auto"
  /\ parallel_requested = "auto"
  /\ rates = << >>
  /\ monthly_extra = << >>
  /\ cli_pc = "none"
  /\ use_numpy = FALSE
  /\ parallel_mode = "none"
  /\ executor = "none"
  /\ futures = << >>
  /\ results = << >>
  /\ stderr = << >>
  /\ stdout = << >>

\* The call has not been made yet.
Pending == ret.raises = "pending"

\* finance.py:42-61 called.
Call_normalize_monthlies ==
  /\ Pending
  /\ call.fn = "_normalize_monthlies"
  /\ ret' = _normalize_monthlies(call.monthly)
  /\ UNCHANGED << call, inputs, engineVars, cliVars, guiVars >>

\* finance.py:228-265 called.
Call_value_at_age_hybrid_exact ==
  /\ Pending
  /\ call.fn = "value_at_age_hybrid_exact"
  /\ ret' = value_at_age_hybrid_exact(call.lump_events, call.monthly, call.r,
                                      call.target_age_float, call.start_age,
                                      call.m)
  /\ UNCHANGED << call, inputs, engineVars, cliVars, guiVars >>

NextCall ==
  \/ Call_normalize_monthlies
  \/ Call_value_at_age_hybrid_exact

SpecCall == InitCall /\ [][NextCall]_vars

---------------------------------------------------------------------------
\* ---- the GUI's background jobs (gui/app.py:700-724) ----

\* The most jobs the handlers of the window start in one run.
MaxJobs == 3

\* What a job ends with: fn returns its ui_update, which runs cleanly or
\* raises when the UI thread calls it, or fn raises.
Outcomes ==
  { [status |-> "ok", payload |-> "ui_update"],
    [status |-> "ok", payload |-> "ui_update raises"],
    [status |-> "err", payload |-> "exc"] }

\* Mutant of get_nowait: the item is read and left in the queue.
get_nowaitPeeks(q) == [item |-> Head(q), rest |-> q]

\* gui/app.py:713: queue.Queue.get_nowait on a queue that is not empty takes
\* the oldest item out of it.
get_nowait(q) == [item |-> Head(q), rest |-> Tail(q)]

InitGui ==
  /\ NoGui
  /\ NoCall
  /\ lump_events = << >>
  /\ monthly = PyNone
  /\ r = 0
  /\ start_age = 0
  /\ end_age = 0
  /\ m = 12
  /\ HAS_NUMPY = TRUE
  /\ pc = "none"
  /\ NoFrame
  /\ out = << >>
  /\ outNp = << >>
  /\ target_age = 0
  /\ result = None
  /\ engine = "auto"
  /\ parallel_requested = "auto"
  /\ rates = << >>
  /\ monthly_extra = << >>
  /\ cli_pc = "none"
  /\ use_numpy = FALSE
  /\ parallel_mode = "none"
  /\ executor = "none"
  /\ futures = << >>
  /\ results = << >>
  /\ stderr = << >>
  /\ stdout = << >>

\* gui/app.py:700-709, called on the UI thread by a handler (1377, 1512,
\* 1618): the thread of the job is started and a first poll is scheduled.
\* A job and the poll chain started with it carry the number of the call.
_run_in_thread ==
  /\ Len(threads) < MaxJobs
  /\ threads' = Append(threads, "running")
  /\ after' = after \cup { Len(threads) + 1 }
  /\ UNCHANGED << _work_q, handled >>
  /\ UNCHANGED << inputs, engineVars, cliVars, callVars >>

\* gui/app.py:701-706: the thread of job j runs fn and puts its outcome.
target(j) ==
  /\ j \in DOMAIN threads
  /\ threads[j] = "running"
  /\ \E outcome \in Outcomes :
       _work_q' = Append(_work_q, [status |-> outcome.status, job |-> j,
                                   payload |-> outcome.payload])
  /\ threads' = [ threads EXCEPT ![j] = "finished" ]
  /\ UNCHANGED << after, handled >>
  /\ UNCHANGED << inputs, engineVars, cliVars, callVars >>

\* gui/app.py:711-724, the scheduled poll of chain c run by the UI thread:
\* on an empty queue it schedules itself again; otherwise it takes one
\* outcome, runs the ui_update of an "ok" or shows the error, and is not
\* scheduled again.
_poll_work_queue(c) ==
  /\ c \in after
  /\ IF _work_q = << >>
     THEN UNCHANGED << _work_q, after, handled >>
     ELSE LET got == get_nowait(_work_q)
          IN /\ _work_q' = got.rest
             /\ after' = after \ { c }
             /\ handled' =
                  Append(handled,
                    [ chain |-> c, job |-> got.item.job, status |-> got.item.status,
                      shown |-> IF /\ got.item.status = "ok"
                                   /\ got.item.payload = "ui_update"
                                THEN "update" ELSE "showerror" ])
  /\ UNCHANGED threads
  /\ UNCHANGED << inputs, engineVars, cliVars, callVars >>

NextGui ==
  \/ _run_in_thread
  \/ \E j \in 1 .. MaxJobs : target(j)
  \/ \E c \in 1 .. MaxJobs : _poll_work_queue(c)

SpecGui == InitGui /\ [][NextGui]_vars

\* The same with the scheduling the code relies on: a started thread runs
\* to its put, its job terminating, and the event loop of the window runs a
\* callback scheduled with after().
SpecGuiFair ==
  /\ SpecGui
  /\ \A j \in 1 .. MaxJobs : WF_vars(target(j))
  /\ \A c \in 1 .. MaxJobs : WF_vars(_poll_work_queue(c))

---------------------------------------------------------------------------
\* ---- helpers of the claims ----

\* (1 + i) of the run.
G == Growth(r, m)

\* timeline_hybrid_py has returned.
PyReturned == pc \in {"py_done", "np_done", "val_loop", "done"}

\* timeline_hybrid_np has returned.
NpReturned == pc \in {"np_done", "val_loop", "done"}

\* The recurring schedule is absent or empty.
NoRecurring == _normalize_monthlies(monthly).value = << >>

\* g^0 + g^1 + ... + g^(n-1): the future value of n unit deposits, the last
\* one not grown; ((1+i)^n - 1) / i when i # 0, and n when i = 0.
RECURSIVE Annuity(_, _)
Annuity(g, n) == IF n <= 0 THEN 0 ELSE Pow(g, n - 1) + Annuity(g, n - 1)

\* C1: the vectorized and the sequential path return the same Timeline:
\* the same ages in the same order with equal values.
C1_SeqVecEquivalent ==
  NpReturned =>
    /\ Len(outNp) = Len(out)
    /\ \A k \in 1 .. Len(out) : outNp[k][1] = out[k][1] /\ outNp[k][2] = out[k][2]

C1_Witness ==
  /\ pc = "np_done"
  /\ r > 0
  /\ end_age > start_age
  /\ Len(lump_events) = 2
  /\ ~NoRecurring
  /\ Len(outNp) = 2
  /\ outNp[2][2] > outNp[1][2]
  /\ outNp[1][2] > 0

\* C2: valueAtAge(targetAge = startAge) equals the value of the first
\* Timeline entry for the same inputs.
C2_PrePostConsistent ==
  (pc = "done" /\ target_age = Ticks(start_age)) =>
    result = << out[1][2], 1 >>

\* The scenario of C3: M = 12, startAge = 0, one lump of 5000 at age 0.5, no
\* recurring contributions, a horizon of at least a year.
C3_Scenario ==
  /\ m = 12
  /\ start_age = 0
  /\ end_age >= 1
  /\ lump_events = << << TicksPerYear \div 2, 5000 >> >>
  /\ NoRecurring

\* C3 as claimed: in that scenario the Timeline entry at age 0 is the lump
\* compounded for 6 monthly periods.
C3_AgeZeroIsSixPeriods ==
  (PyReturned /\ C3_Scenario) => out[1] = << 0, 5000 * Pow(G, 6) >>

\* C3 as amended: in that scenario the Timeline entry at age 0 is 0 and the
\* entry at age 1 is the lump compounded for 7 monthly periods.
C3_AgeOneIsSevenPeriods ==
  (PyReturned /\ C3_Scenario) =>
    /\ out[1] = << 0, 0 >>
    /\ out[2] = << 1, 5000 * Pow(G, 7) >>

C3_Witness ==
  /\ pc = "py_done"
  /\ C3_Scenario
  /\ r > 0
  /\ out[2][2] = 640000

\* The scenario of C4: one recurring segment (0, 18, 125), M = 12,
\* startAge = 0, no lumps, a horizon of at least a year.
C4_Scenario ==
  /\ m = 12
  /\ start_age = 0
  /\ end_age >= 1
  /\ lump_events = << >>
  /\ _normalize_monthlies(monthly).value
       = << Segment(<< 0, Some(Ticks(18)), 125 >>) >>

\* C4: in that scenario the Timeline value at age 1 is the future value of
\* exactly 12 monthly deposits of 125.
C4_TwelveDeposits ==
  (PyReturned /\ C4_Scenario) => out[2] = << 1, 125 * Annuity(G, 12) >>

\* C5: every period of the sequential simulation and of the valuator's loop
\* takes value to (value + lump injection) * (1 + i) + recurring injection,
\* and the accumulator starts at preHorizonValue.
C5_LumpBeforeGrowthRecurringAfter ==
  /\ [][ (pc \in {"py_loop", "val_loop"} /\ mi' = mi + 1) =>
           value' = (value + lump_by_month[mi]) * (1 + PeriodRate(r, m))
                      + monthly_vec[mi] ]_vars
  /\ [][ (pc' \in {"py_loop", "val_loop"} /\ pc' # pc) =>
           value' = _pre_start_value_and_adjust(lump_events, monthly, r,
                      Ticks(start_age),
                      IF pc' = "py_loop" THEN Ticks(end_age) ELSE target_age',
                      m).pre_value ]_vars

C5_Witness ==
  /\ pc = "val_loop"
  /\ mi = 1
  /\ r > 0
  /\ lump_by_month[0] > 0
  /\ monthly_vec[0] > 0
  /\ value = 2 * lump_by_month[0] + monthly_vec[0]

\* C6: with no lumps and an empty or absent recurring schedule every
\* Timeline value is 0, on both paths.
C6_ZeroContributions ==
  (lump_events = << >> /\ NoRecurring) =>
    /\ \A k \in 1 .. Len(out) : out[k][2] = 0
    /\ \A k \in 1 .. Len(outNp) : outNp[k][2] = 0

C6_Witness ==
  /\ pc = "np_done"
  /\ lump_events = << >>
  /\ monthly = PyList(<< >>)
  /\ r > 0
  /\ Len(out) = 2
  /\ Len(outNp) = 2

\* Every contribution is non-negative.
NonNegative ==
  /\ \A k \in 1 .. Len(lump_events) : lump_events[k][2] >= 0
  /\ \A k \in 1 .. Len(_normalize_monthlies(monthly).value) :
       Unpacked(_normalize_monthlies(monthly).value[k])[3] >= 0

\* C7: at a positive rate and with non-negative contributions the Timeline
\* values are non-decreasing in age.
C7_Monotonic ==
  (r > 0 /\ NonNegative) =>
    /\ \A k \in 1 .. Len(out) - 1 : out[k + 1][2] >= out[k][2]
    /\ \A k \in 1 .. Len(outNp) - 1 : outNp[k + 1][2] >= outNp[k][2]

C7_Witness ==
  /\ pc = "np_done"
  /\ r > 0
  /\ NonNegative
  /\ Len(lump_events) > 0
  /\ ~NoRecurring
  /\ Len(out) = 2
  /\ out[2][2] > out[1][2]
  /\ out[1][2] > 0

\* C8: a single lump L a year before startAge, M = 12, no recurring
\* contributions: valueAtAge(startAge - 1) is L, the discount over
\* round(M) periods undoing the roll over ceil(M - eps) periods.
C8_BackwardInverse ==
  ( /\ pc = "done"
    /\ m = 12
    /\ NoRecurring
    /\ Len(lump_events) = 1
    /\ lump_events[1][1] = Ticks(start_age) - TicksPerYear
    /\ target_age = Ticks(start_age) - TicksPerYear )
  => /\ result[1] = lump_events[1][2] * result[2]
     /\ result[2] = Pow(G, 12)

C8_Witness ==
  /\ pc = "done"
  /\ m = 12
  /\ r > 0
  /\ NoRecurring
  /\ lump_events = << << Ticks(start_age) - TicksPerYear, 2 >> >>
  /\ target_age = Ticks(start_age) - TicksPerYear
  /\ result = << 8192, 4096 >>

\* C9: the Timeline has endAge - startAge + 1 entries with ages startAge,
\* startAge + 1, ..., endAge, on both paths, and the sequential loop has
\* emitted one entry for every multiple of M among the periods it has run.
C9_OneEntryPerYear ==
  /\ PyReturned =>
       /\ Len(out) = end_age - start_age + 1
       /\ \A k \in 1 .. Len(out) : out[k][1] = start_age + k - 1
  /\ NpReturned =>
       /\ Len(outNp) = end_age - start_age + 1
       /\ \A k \in 1 .. Len(outNp) : outNp[k][1] = start_age + k - 1
  /\ pc = "py_loop" =>
       Len(out) = Cardinality({ p \in 0 .. mi - 1 : p % m = 0 })

C9_Witness ==
  /\ pc = "np_done"
  /\ start_age = 1
  /\ end_age = 2
  /\ m = 4
  /\ Len(out) = 2
  /\ Len(outNp) = 2

\* C10: a request for the vectorized engine with the library absent ends in
\* an error: no Timeline is computed for it by the sequential simulator.
C10_NotDowngraded ==
  (Lower(engine) = "numpy" /\ ~HAS_NUMPY) =>
    \A k \in 1 .. Len(futures) :
      futures[k].state = "done" => futures[k].value.by # "python"

\* The strings the two resolvers accept, once lowered.
EngineModes == {"auto", "numpy", "python"}
ParallelModes == {"auto", "process", "thread", "none"}

\* execute_parallel has been entered.
Submitted ==
  cli_pc \notin {"none", "start", "engine_resolved", "parallel_resolved",
                 "ValueError"}

\* What compute_one returns for the k-th task of the run.
TaskResult(k) ==
  compute_one(rates[k], lump_events, monthly.items, monthly_extra, start_age,
              end_age, m, use_numpy)

\* C11: an engine string outside {auto, numpy, python} and a parallel-mode
\* string outside {auto, process, thread, none}, compared without case, is
\* rejected with an error by its resolver, also for at most one task, and in
\* the command-line run no task is submitted or run after such a string.
C11_UnknownModeRejected ==
  /\ \A e \in EngineStrings :
       Lower(e) \notin EngineModes => resolve_use_numpy(e).raises = "ValueError"
  /\ \A p \in ParallelStrings, n \in 0 .. 3 :
       Lower(p) \notin ParallelModes =>
         resolve_parallel_mode(p, n).raises = "ValueError"
  /\ (Lower(engine) \notin EngineModes
        \/ Lower(parallel_requested) \notin ParallelModes) =>
       /\ cli_pc \in {"start", "engine_resolved", "ValueError"}
       /\ futures = << >>
       /\ results = << >>

C11_Witness ==
  /\ cli_pc = "ValueError"
  /\ Lower(engine) \in EngineModes
  /\ parallel_requested = "fork"
  /\ Len(rates) <= 1
  /\ futures = << >>

\* C12: value_at_age_hybrid_exact fails with an error and returns no value
\* whenever start_age is not finite or m <= 0.
C12_InvalidRangeRejected ==
  ( /\ call.fn = "value_at_age_hybrid_exact"
    /\ ~Pending
    /\ (call.start_age.fl # "finite" \/ call.m <= 0) )
  => ret.raises # "no"

\* A number, a string or None: a component of a segment.
Scalar(x) == x.py \in {"float", "int", "str", "NoneType"}

\* The input is one segment: a non-empty tuple of components.
IsSingleSegment(x) ==
  /\ x.py = "tuple"
  /\ x.items # << >>
  /\ \A k \in 1 .. Len(x.items) : Scalar(x.items[k])

\* The segments of an input: the input itself, or its items.
GivenSegments(x) ==
  IF IsSingleSegment(x) THEN << x >>
  ELSE IF x.py \in {"tuple", "list"} THEN x.items
  ELSE << >>

\* A tuple or list that does not have exactly three components.
WrongLength(seg) == seg.py \in {"tuple", "list"} /\ Len(seg.items) # 3

\* C13: _normalize_monthlies fails with its ValueError, returning no list,
\* whenever a segment of the input does not have exactly three components:
\* an empty segment inside a sequence and a single segment of the wrong
\* length included.
C13_MalformedRejected ==
  ( /\ call.fn = "_normalize_monthlies"
    /\ ~Pending
    /\ \E k \in 1 .. Len(GivenSegments(call.monthly)) :
         WrongLength(GivenSegments(call.monthly)[k]) )
  => ret.raises = "ValueError"

\* Every segment of the input has three components, start and amount ones
\* that float() accepts, end one that float() accepts or None.
WellFormed(x) ==
  /\ x.py \in {"NoneType", "tuple", "list"}
  /\ \A k \in 1 .. Len(GivenSegments(x)) :
       LET seg == GivenSegments(x)[k]
       IN /\ seg.py \in {"tuple", "list"}
          /\ Len(seg.items) = 3
          /\ Floatable(seg.items[1])
          /\ Floatable(seg.items[2]) \/ seg.items[2].py = "NoneType"
          /\ Floatable(seg.items[3])

\* An int or a float.
IsNumber(x) == x.py \in {"float", "int"}

\* C14: for an absent or empty input _normalize_monthlies returns the empty
\* list, for a single segment a list of one element, for a sequence one
\* element per segment in input order; in every returned segment start and
\* amount are numbers with the given values and a missing end stays None.
C14_Normalized ==
  ( /\ call.fn = "_normalize_monthlies"
    /\ ~Pending
    /\ WellFormed(call.monthly) )
  => /\ ret.raises = "no"
     /\ Len(ret.value) = Len(GivenSegments(call.monthly))
     /\ \A k \in 1 .. Len(ret.value) :
          LET given == GivenSegments(call.monthly)[k].items
              seg == ret.value[k].items
          IN /\ Len(seg) = 3
             /\ IsNumber(seg[1]) /\ seg[1].v = given[1].v
             /\ IsNumber(seg[3]) /\ seg[3].v = given[3].v
             /\ IF given[2].py = "NoneType" THEN seg[2] = PyNone
                ELSE IsNumber(seg[2]) /\ seg[2].v = given[2].v

\* C15: for every mode and every order in which the workers complete,
\* execute_parallel returns the list whose k-th element is what func returns
\* for the k-th task.
C15_ResultsInTaskOrder ==
  cli_pc = "done" =>
    /\ Len(results) = Len(rates)
    /\ \A k \in 1 .. Len(rates) : results[k] = TaskResult(k)

C15_Witness ==
  /\ cli_pc = "done"
  /\ executor = "ThreadPoolExecutor"
  /\ Len(rates) = 3
  /\ futures[3].at = 1
  /\ futures[1].at = 3
  /\ results[1] # results[2]
  /\ results[1].rate = rates[1]

\* C16: execute_parallel returns one result per task or raises the error of
\* a failed task: the list is never shorter than the task list, holds no
\* placeholder for a failed task, and no task is invoked more than once.
C16_AllOrError ==
  /\ \A k \in 1 .. Len(futures) : futures[k].runs <= 1
  /\ cli_pc = "done" =>
       /\ Len(results) = Len(rates)
       /\ \A k \in 1 .. Len(rates) :
            /\ futures[k].state = "done"
            /\ results[k] = futures[k].value
            /\ results[k].raises = "no"
  /\ (\E k \in 1 .. Len(futures) : futures[k].state = "failed") =>
       /\ results = << >>
       /\ cli_pc # "done"
  /\ (Submitted /\ cli_pc \notin {"executing", "done"}) =>
       \E k \in 1 .. Len(futures) :
         Fails(futures, k) /\ cli_pc = futures[k].error

C16_Witness ==
  /\ cli_pc = "ZeroDivisionError"
  /\ executor = "ProcessPoolExecutor"
  /\ Len(rates) = 3
  /\ \A k \in 1 .. 3 : futures[k].state = "failed" /\ futures[k].runs = 1
  /\ futures[1].at = 3
  /\ results = << >>

\* C17: with at most one task every valid requested mode resolves to
\* "none", and execute_parallel with mode "none" or an empty task list runs
\* the tasks directly in task order, without a worker pool.
C17_SingleTaskDirect ==
  /\ \A p \in ParallelStrings, n \in 0 .. 1 :
       Lower(p) \in ParallelModes =>
         resolve_parallel_mode(p, n) = Returns("none")
  /\ \A mode \in {"process", "thread", "none"} : ~UsesPool(mode, << >>)
  /\ ~UsesPool("none", rates)
  /\ (Len(rates) <= 1 /\ (cli_pc = "parallel_resolved" \/ Submitted)) =>
       parallel_mode = "none"
  /\ (Submitted /\ (parallel_mode = "none" \/ rates = << >>)) =>
       /\ executor = "none"
       /\ \A k \in 1 .. Len(futures) :
            futures[k].state # "pending" => futures[k].at = k

C17_Witness ==
  /\ cli_pc = "done"
  /\ Len(rates) = 1
  /\ parallel_requested = "Thread"
  /\ parallel_mode = "none"
  /\ executor = "none"
  /\ Len(results) = 1
  /\ stderr # << >>

\* C18: the hybrid Timeline compute_one returns for a rate is computed from
\* the lump events together with the base monthly schedule and the
\* hybrid-only extra segments.
C18_HybridHasBase ==
  \A k \in 1 .. Len(futures) :
    futures[k].state = "done" =>
      futures[k].value.hybrid =
        timeline_hybrid(lump_events,
                        AsSchedule(combine_monthlies(monthly.items, monthly_extra)),
                        rates[k], start_age, end_age, m, use_numpy).timeline

\* The accumulator has just returned to a simulator, value holding pre_value.
AccumulatorReturned == pc \in {"py_loop", "val_loop"} /\ mi = 0

\* The horizon the accumulator was called with, in ticks.
HorizonOfCall ==
  IF pc = "py_loop" THEN Ticks(end_age) ELSE Max(target_age, Ticks(start_age))

\* The segments of the run, unpacked.
SegmentsOfRun == Scheds(_normalize_monthlies(monthly).value)

\* The integers j whose calendar-month point startAge + j/12 lies in the
\* closed interval [segment startAge, clippedEnd].
WindowMonths(seg, horizon) ==
  LET clippedEnd == IF seg[2] = None THEN horizon ELSE Min(seg[2][1], horizon)
  IN { j \in -MonthsPerYear .. MonthsPerYear * (MaxYears + 1) :
         /\ seg[1] <= ContribAge(j, Ticks(start_age))
         /\ ContribAge(j, Ticks(start_age)) <= clippedEnd }

\* C19: every calendar-month point in the closed interval
\* [segment startAge, clippedEnd] contributes monthlyAmount exactly once, to
\* preHorizonValue or to one period bucket, a window of a single point
\* included, and no other month contributes: at rate 0 and without lumps,
\* preHorizonValue and the buckets add up to monthlyAmount times the number
\* of points, over the segments.
C19_EveryWindowMonthOnce ==
  (AccumulatorReturned /\ r = 0 /\ lump_events = << >>) =>
    value + SumOver(DOMAIN monthly_vec, monthly_vec)
      = SumOver(DOMAIN SegmentsOfRun,
          [ k \in DOMAIN SegmentsOfRun |->
              SegmentsOfRun[k][3]
                * Cardinality(WindowMonths(SegmentsOfRun[k], HorizonOfCall)) ])

\* k = ceil((startAge - age) * M - eps), the periods to roll from age.
PeriodsToRoll(age) == Ceil((Ticks(start_age) - age) * m, TicksPerYear)

\* The sum of amount * (1 + i)^k over the lumps dated before startAge and
\* the calendar-month contributions dated before startAge.
ExpectedPreHorizonValue(horizon) ==
  SumOver({ k \in DOMAIN lump_events : lump_events[k][1] < Ticks(start_age) },
          [ k \in DOMAIN lump_events |->
              lump_events[k][2] * Pow(G, PeriodsToRoll(lump_events[k][1])) ])
  + SumOver(DOMAIN SegmentsOfRun,
      [ k \in DOMAIN SegmentsOfRun |->
          SegmentsOfRun[k][3]
            * SumOver({ j \in WindowMonths(SegmentsOfRun[k], horizon) : j < 0 },
                [ j \in -MonthsPerYear .. -1 |->
                    Pow(G, PeriodsToRoll(ContribAge(j, Ticks(start_age)))) ]) ])

\* C20: preHorizonValue is the sum, over every lump with age < startAge and
\* every recurring calendar-month contribution dated before startAge, of
\* amount * (1 + i)^k with k = ceil((startAge - age) * M - eps);
\* contributions dated at or after startAge add nothing to it.
C20_PreHorizonValue ==
  /\ AccumulatorReturned => value = ExpectedPreHorizonValue(HorizonOfCall)
  /\ (pc = "done" /\ target_age < Ticks(start_age)) =>
       result[1] = ExpectedPreHorizonValue(Ticks(start_age))

C20_Witness ==
  /\ pc = "py_loop"
  /\ mi = 0
  /\ m = 12
  /\ r > 0
  /\ lump_events = << << Ticks(start_age) - 1, 2 >> >>
  /\ SegmentsOfRun = << << Ticks(start_age) - 8, None, 1 >> >>
  /\ value = 34

\* The lumps dated before startAge, those dated in [startAge, horizon] and
\* those dated after the horizon, by their places in the list.
RolledLumps == { k \in DOMAIN lump_events : lump_events[k][1] < Ticks(start_age) }
RetainedLumps(horizon) ==
  { k \in DOMAIN lump_events :
      Ticks(start_age) <= lump_events[k][1] /\ lump_events[k][1] <= horizon }
DroppedLumps(horizon) == { k \in DOMAIN lump_events : lump_events[k][1] > horizon }

\* The amounts of the lumps, by their places in the list.
LumpAmounts == [ k \in DOMAIN lump_events |-> lump_events[k][2] ]

\* C21: a lump is rolled into preHorizonValue when age < startAge, injected
\* in exactly one period when startAge <= age <= horizonAge, and dropped when
\* age > horizonAge: preHorizonValue holds the rolled lumps only, the period
\* injections add up to the amounts of the retained lumps, and at rate 0 the
\* last Timeline value is the sum of the rolled and the retained amounts.
C21_EveryLumpOnce ==
  /\ (AccumulatorReturned /\ NoRecurring) =>
       value = SumOver(RolledLumps,
                 [ k \in DOMAIN lump_events |->
                     lump_events[k][2] * Pow(G, PeriodsToRoll(lump_events[k][1])) ])
  /\ AccumulatorReturned =>
       SumOver(DOMAIN lump_by_month, lump_by_month)
         = SumOver(RetainedLumps(HorizonOfCall), LumpAmounts)
  /\ (pc = "py_done" /\ r = 0 /\ NoRecurring) =>
       out[Len(out)][2]
         = SumOver(RolledLumps \cup RetainedLumps(Ticks(end_age)), LumpAmounts)

C21_Witness ==
  /\ pc = "py_done"
  /\ r = 0
  /\ NoRecurring
  /\ end_age > start_age
  /\ Cardinality(RolledLumps) = 1
  /\ Cardinality(RetainedLumps(Ticks(end_age))) = 1
  /\ Cardinality(DroppedLumps(Ticks(end_age))) = 1
  /\ out[Len(out)][2] = 12

\* floor((age - startAge) * M + eps), age in ticks.
PeriodIndex(age) == Floor((age - Ticks(start_age)) * m, TicksPerYear)

\* T = round((horizonAge - startAge) * M).
TotalPeriods(horizon) == Round((horizon - Ticks(start_age)) * m, TicksPerYear)

\* The calendar months a segment enumerates that are dated in
\* [startAge, horizon].
PostStartMonths(seg, horizon) ==
  { j \in SchedMonths(seg, Ticks(start_age), horizon) :
      /\ Ticks(start_age) <= ContribAge(j, Ticks(start_age))
      /\ ContribAge(j, Ticks(start_age)) <= horizon }

\* C22: a lump or recurring contribution dated in [startAge, horizonAge] is
\* injected at period floor((age - startAge) * M + eps), which lies in 0 .. T
\* with T = round((horizonAge - startAge) * M), and the injection of a
\* period is the sum of the contributions assigned to it.
C22_PeriodIndex ==
  AccumulatorReturned =>
    /\ DOMAIN lump_by_month = 0 .. TotalPeriods(HorizonOfCall)
    /\ DOMAIN monthly_vec = 0 .. TotalPeriods(HorizonOfCall)
    /\ \A k \in RetainedLumps(HorizonOfCall) :
         PeriodIndex(lump_events[k][1]) \in 0 .. TotalPeriods(HorizonOfCall)
    /\ \A k \in DOMAIN SegmentsOfRun :
         \A j \in PostStartMonths(SegmentsOfRun[k], HorizonOfCall) :
           PeriodIndex(ContribAge(j, Ticks(start_age)))
             \in 0 .. TotalPeriods(HorizonOfCall)
    /\ \A p \in 0 .. TotalPeriods(HorizonOfCall) :
         /\ lump_by_month[p]
              = SumOver({ k \in RetainedLumps(HorizonOfCall) :
                           PeriodIndex(lump_events[k][1]) = p }, LumpAmounts)
         /\ monthly_vec[p]
              = SumOver(DOMAIN SegmentsOfRun,
                  [ k \in DOMAIN SegmentsOfRun |->
                      SegmentsOfRun[k][3]
                        * Cardinality(
                            { j \in PostStartMonths(SegmentsOfRun[k], HorizonOfCall) :
                                PeriodIndex(ContribAge(j, Ticks(start_age))) = p }) ])

C22_Witness ==
  /\ pc = "py_loop"
  /\ mi = 0
  /\ m = 4
  /\ end_age > start_age
  /\ lump_events = << << Ticks(start_age), 1 >>, << Ticks(start_age) + 1, 1 >> >>
  /\ SegmentsOfRun = << << Ticks(start_age), None, 2 >> >>
  /\ lump_by_month[0] = 2
  /\ monthly_vec[0] = 6
  /\ monthly_vec[4] = 2

\* C23: for an integer targetAge A >= startAge the point valuator returns
\* the value of the last entry, the one of age A, of the sequential Timeline
\* computed with endAge = A for the same inputs.
C23_PointIsTimelineEnd ==
  (pc = "done" /\ target_age = Ticks(end_age)) =>
    /\ out[Len(out)][1] = end_age
    /\ result = << out[Len(out)][2], 1 >>

C23_Witness ==
  /\ pc = "done"
  /\ target_age = Ticks(end_age)
  /\ end_age > start_age
  /\ r > 0
  /\ lump_events = MixedLumps(start_age)
  /\ ~NoRecurring
  /\ result[1] > out[1][2]
  /\ out[1][2] > 0

\* C24: no step of a run changes the lump list, the recurring schedules or
\* the module-level HAS_NUMPY; a task that runs changes the outcome of no
\* other task; and the result of a task is what compute_one returns for its
\* own arguments, whichever tasks have run before it or are still to run.
C24_InputsUntouched ==
  /\ [][ /\ lump_events' = lump_events
         /\ monthly' = monthly
         /\ monthly_extra' = monthly_extra
         /\ HAS_NUMPY' = HAS_NUMPY ]_vars
  /\ [][ \A k \in 1 .. Len(futures) :
           futures[k].state # "pending" =>
             Len(futures') = Len(futures) /\ futures'[k] = futures[k] ]_vars
  /\ [](\A k \in 1 .. Len(futures) :
          futures[k].state = "done" => futures[k].value = TaskResult(k))

C24_Witness ==
  /\ cli_pc = "executing"
  /\ executor = "ThreadPoolExecutor"
  /\ Len(rates) = 3
  /\ lump_events # << >>
  /\ monthly_extra # << >>
  /\ futures[3].state = "done" /\ futures[3].at = 1
  /\ futures[1].state = "done" /\ futures[1].at = 2
  /\ futures[2].state = "pending"
  /\ futures[1].value = futures[3].value

\* C25: the Timeline entry of an age does not depend on endAge: for every
\* E1 in startAge .. endAge the sequential Timeline computed with endAge = E1
\* is a prefix of the one computed with endAge, for the same inputs.
C25_PrefixOfLongerRun ==
  PyReturned =>
    \A E1 \in start_age .. end_age :
      LET shorter == timeline_hybrid_py(lump_events, monthly, r, start_age, E1, m)
      IN /\ Len(shorter) <= Len(out)
         /\ \A k \in 1 .. Len(shorter) : shorter[k] = out[k]

\* The schedule compute_one passes to timeline_hybrid for the hybrid series.
HybridScheduleOfTimeline ==
  AsSchedule(resolve_strategy_monthlies(monthly.items, monthly_extra).hybrid_only)

\* C26: every call of the valuator that fills a Hybrid row of the point
\* estimates is given the recurring schedule from which compute_one computes
\* the hybrid Timeline of the same run.
C26_SameHybridSchedule ==
  \A j \in 1 .. Len(stdout) :
    stdout[j].option = "Hybrid" =>
      \A a \in 1 .. Len(stdout[j].calls) :
        stdout[j].calls[a].monthly = HybridScheduleOfTimeline

\* Every lump and every recurring segment of the run is dated after age.
AllDatedAfter(age) ==
  /\ \A k \in DOMAIN lump_events : lump_events[k][1] > age
  /\ \A k \in DOMAIN SegmentsOfRun : SegmentsOfRun[k][1] > age

\* C27: for targetAge < startAge the valuator returns 0 when every lump and
\* every recurring contribution is dated after targetAge.
C27_NothingBeforeTargetIsZero ==
  (pc = "done" /\ target_age < Ticks(start_age) /\ AllDatedAfter(target_age)) =>
    result[1] = 0

\* The amounts of all lumps dated at or before endAge, plus monthlyAmount
\* for every calendar month a segment enumerates up to endAge.
TotalContributed ==
  SumOver({ k \in DOMAIN lump_events : lump_events[k][1] <= Ticks(end_age) },
          LumpAmounts)
  + SumOver(DOMAIN SegmentsOfRun,
      [ k \in DOMAIN SegmentsOfRun |->
          SegmentsOfRun[k][3]
            * Cardinality(SchedMonths(SegmentsOfRun[k], Ticks(start_age),
                                      Ticks(end_age))) ])

\* C28: at rate 0 the last Timeline value is the sum of the amounts of all
\* lumps dated at or before endAge and of monthlyAmount for every enumerated
\* calendar month of every segment up to endAge, a total that does not
\* depend on M; on both paths.
C28_ZeroRateConserves ==
  /\ (PyReturned /\ r = 0) => out[Len(out)][2] = TotalContributed
  /\ (NpReturned /\ r = 0) => outNp[Len(outNp)][2] = TotalContributed

C28_Witness ==
  /\ pc = "np_done"
  /\ r = 0
  /\ m = 4
  /\ end_age > start_age
  /\ lump_events = MixedLumps(start_age)
  /\ SegmentsOfRun = << << Ticks(start_age) - 8, None, 1 >> >>
  /\ out[Len(out)][2] = 29

\* C29: the Timeline of the lump list together with the recurring schedule
\* is, age by age, the sum of the Timeline of the lump list alone and the
\* Timeline of the recurring schedule alone, for the same rate, startAge,
\* endAge and M.
C29_Linear ==
  pc = "py_done" =>
    LET lumpsAlone == timeline_hybrid_py(lump_events, PyNone, r, start_age,
                                         end_age, m)
        scheduleAlone == timeline_hybrid_py(<< >>, monthly, r, start_age,
                                            end_age, m)
    IN /\ Len(lumpsAlone) = Len(out)
       /\ Len(scheduleAlone) = Len(out)
       /\ \A k \in 1 .. Len(out) :
            /\ lumpsAlone[k][1] = out[k][1]
            /\ scheduleAlone[k][1] = out[k][1]
            /\ out[k][2] = lumpsAlone[k][2] + scheduleAlone[k][2]

C29_Witness ==
  /\ pc = "py_done"
  /\ r > 0
  /\ m = 12
  /\ end_age > start_age
  /\ lump_events = MixedLumps(start_age)
  /\ SegmentsOfRun = << << Ticks(start_age) - 8, None, 2 >> >>
  /\ timeline_hybrid_py(lump_events, PyNone, r, start_age, end_age, m)[2][2] > 0
  /\ timeline_hybrid_py(<< >>, monthly, r, start_age, end_age, m)[2][2] > 0
  /\ out[1][2] > 0

\* The outcomes of job j waiting in the queue, and those handled.
Queued(j) == { k \in DOMAIN _work_q : _work_q[k].job = j }
Handled(j) == { k \in DOMAIN handled : handled[k].job = j }

\* The outcomes chain c has handled.
HandledBy(c) == { k \in DOMAIN handled : handled[k].chain = c }

\* A running job has put nothing; a finished job has put one outcome, which
\* is in the queue or has been handled once; a poll chain is scheduled until
\* it has handled one outcome, and never after.
OneOutcomeEach ==
  /\ \A j \in DOMAIN threads :
       Cardinality(Queued(j)) + Cardinality(Handled(j))
         = IF threads[j] = "running" THEN 0 ELSE 1
  /\ \A c \in DOMAIN threads :
       Cardinality(HandledBy(c)) = IF c \in after THEN 0 ELSE 1
  /\ after \subseteq DOMAIN threads
  /\ Len(_work_q) <= Cardinality(after)

\* C30: every job started by _run_in_thread puts exactly one outcome on the
\* work queue, every outcome is taken and handled exactly once by a poll of
\* the UI thread also with several jobs in flight, and every poll chain
\* stops rescheduling itself once it has handled one outcome.
C30_OneOutcomeHandledOnce ==
  /\ []OneOutcomeEach
  /\ \A j \in 1 .. MaxJobs :
       (j \in DOMAIN threads) ~> (Handled(j) # {} /\ Queued(j) = {})
  /\ \A c \in 1 .. MaxJobs :
       (c \in DOMAIN threads) ~> [](c \notin after /\ HandledBy(c) # {})

C30_Witness ==
  /\ Len(threads) = 3
  /\ threads[1] = "running"
  /\ after = { 2, 3 }
  /\ Len(handled) = 1
  /\ handled[1].chain = 1 /\ handled[1].job = 3 /\ handled[1].status = "err"
  /\ Len(_work_q) = 1
  /\ _work_q[1].job = 2

=============================================================================
